---- MODULE Spec2Model ----
(***************************************************************************)
(* panoptes.scheduler.target.Target: the visit sequencer (get_visit,       *)
(* get_visit_iter, reset_visits, done_visiting), the reference frame       *)
(* tracker (reference_image, get_image_offset), the duration estimator     *)
(* (estimate_visit_duration) and the constructor's checks.                 *)
(*                                                                         *)
(* Python values are encoded as follows.  An optional value is a tuple:    *)
(* None is <<>> and a value x is <<x>>.  A visit (an Observation object)   *)
(* is named by its 0-based position in self.visit.  A dict is a record     *)
(* over the keys the code reads: a key that is not present holds Missing   *)
(* and a present key holds <<value>>.                                      *)
(***************************************************************************)
EXTENDS Integers, Sequences, FiniteSets, TLC

\* ------------------------------------------------------------------ bounds
MaxVisits == 2
MaxExposures == 2
MaxImages == 2
MaxDuration == 2
MaxOverhead == 2

\* ------------------------------------------------------------ Python values
None == <<>>
Missing == <<>>
EmptyDict == "{}"

\* dict.get(key, default)
Get(dict, key, default) == IF dict[key] = Missing THEN default ELSE dict[key][1]
\* key in dict
Has(dict, key) == dict[key] # Missing
NoException == "<no exception>"

\* The image records the cameras may insert: fits_file, img_file and solved are
\* the keys get_image_offset reads; "wcs a" and "wcs b" stand for stored plate solutions.
ImageRecords ==
    { [fits_file |-> <<"a.fits">>, img_file |-> Missing,      solved |-> <<"wcs a">>],
      [fits_file |-> <<"b.fits">>, img_file |-> <<"a.fits">>, solved |-> <<"wcs b">>],
      [fits_file |-> Missing,      img_file |-> <<"a.fits">>, solved |-> Missing] }

\* The record that stands for the images the Target does not read: those before
\* the most recent one of an exposure handed to get_image_offset, and those after
\* the first one of the exposure reference_image reads.
FillerImage == [fits_file |-> <<"b.fits">>, img_file |-> <<"a.fits">>, solved |-> <<"wcs b">>]

\* The image records, in insertion order, of an exposure handed to
\* get_image_offset: none, or at most MaxImages, the most recent one any record.
ImageLists ==
    {<<>>} \cup
    {[i \in 1..n |-> IF i = n THEN image ELSE FillerImage] :
        n \in 1..MaxImages, image \in ImageRecords}

\* self._offset_info = {}
EmptyOffsetInfo == [method |-> Missing, first |-> Missing, second |-> Missing, info |-> Missing]

VARIABLES
    target,             \* "unconstructed", "created" or "failed" (__init__ raised)
    coord,              \* self.coord: None or <<where the coordinates came from>>
    visit,              \* self.visit: the list of Observation objects
    visits,             \* self.visits: the generator, as the number of visits it has yielded
    current_visit,      \* self.current_visit: None or <<index into self.visit>>
    _done_visiting,     \* self._done_visiting
    _visit_num,         \* self._visit_num
    _reference_image,   \* self._reference_image: None or <<image>>
    _offset_info,       \* self._offset_info
    last_call,          \* the step that led here: op, args, ret, exc, calls
    returned,           \* get_visit's return values since the last reset, while driven
    driven              \* every get_visit since the last reset found no incomplete current visit

vars == <<target, coord, visit, visits, current_visit, _done_visiting, _visit_num,
          _reference_image, _offset_info, last_call, returned, driven>>

\* The sequencing fields of a Target, as one record for the pure operators below.
Self == [visit |-> visit, visits |-> visits, current_visit |-> current_visit,
         _done_visiting |-> _done_visiting, _visit_num |-> _visit_num]

\* A call on the Target: its name and arguments, what it returned (None when it
\* raised), the exception it raised to the caller, and the collaborator calls it
\* made, in order, each as <<collaborator, what it did>>.
Call(op, args, ret, exc, calls) ==
    [op |-> op, args |-> args, ret |-> ret, exc |-> exc, calls |-> calls]

\* A step of a collaborator, which is no call on the Target.
CollaboratorStep(op, args) == Call(op, args, None, NoException, <<>>)

\* ------------------------------------------------- the Observation collaborator
\* An Observation built from a visit entry that asks for n exposures: its
\* exposures (each the sequence of image records inserted so far) and the number
\* of exposures executed since the last reset_exposures().
Observation(n) == [exposures |-> [e \in 1..n |-> <<>>], executed |-> 0]

\* Observation.complete: true once all its exposures have been executed.
complete(obs) == obs.executed = Len(obs.exposures)

\* Observation.reset_exposures(): restart the exposure progression.
reset_exposures(obs) == [obs EXCEPT !.executed = 0]

\* ------------------------------------------------------------ the sequencer
\* Mutant of IsLastVisit: compares with len(self.visit), so no visit is the last.
IsLastVisit_OffByOne(self, num) == num = Len(self.visit)

\* get_visit_iter, line 119: the yielded visit is the last of the list.
IsLastVisit(self, num) == num = Len(self.visit) - 1

\* Mutant of YieldVisit: sets the exhaustion flag on every yield.
\* Mutant of YieldVisit: self._visit_num is not assigned.
YieldVisit_KeepsVisitNum(self, num) ==
    [self EXCEPT !.current_visit = <<num>>,
                 !._done_visiting = IF num = Len(self.visit) - 1 THEN TRUE ELSE @]

YieldVisit_AlwaysDone(self, num) ==
    [self EXCEPT !._visit_num = num, !.current_visit = <<num>>, !._done_visiting = TRUE]

\* get_visit_iter, lines 115-123: the loop body that yields visit number num.
YieldVisit(self, num) ==
    [self EXCEPT !._visit_num = num,
                 !.current_visit = <<num>>,
                 !._done_visiting = IF IsLastVisit(self, num) THEN TRUE ELSE @]

\* Mutant of NeedsNextVisit: a complete current visit is handed out again.
\* Mutant of NeedsNextVisit: every get_visit takes the next visit from the cursor.
NeedsNextVisit_Always(self) == TRUE

NeedsNextVisit_IgnoresComplete(self) == self.current_visit = None

\* get_visit, line 134: no visit is current, or the current visit is complete.
NeedsNextVisit(self) ==
    \/ self.current_visit = None
    \/ complete(self.visit[self.current_visit[1] + 1])

\* reset_visits, lines 141-143: the for loop over a fresh get_visit_iter(),
\* resumed at visit number num.
RECURSIVE ResetLoop(_, _)
ResetLoop(self, num) ==
    IF num >= Len(self.visit)
    THEN self
    ELSE LET yielded == YieldVisit(self, num)
         IN  ResetLoop([yielded EXCEPT !.visit[num + 1] = reset_exposures(@)], num + 1)

\* Mutant of reset_visits: the generator is not rebuilt.
reset_visits_KeepsCursor(self) ==
    [ResetLoop(self, 0) EXCEPT !.current_visit = None, !._done_visiting = FALSE]

\* reset_visits, lines 139-150.
reset_visits(self) ==
    [ResetLoop(self, 0) EXCEPT !.visits = 0,
                               !.current_visit = None,
                               !._done_visiting = FALSE]

\* ---------------------------------------------------------------- __init__
\* __init__, line 64: one Observation per entry of target_config['visit'],
\* [{}] when there is no such entry; an entry is the number of exposures to make.
VisitEntries(target_config) == Get(target_config, "visit", <<0>>)

\* __init__, lines 64-73: the fields of a Target whose construction succeeds.
NewTarget(target_config) ==
    LET entries == VisitEntries(target_config)
        built == [visit |-> [i \in 1..Len(entries) |-> Observation(entries[i])],
                  visits |-> 0, current_visit |-> None,
                  _done_visiting |-> FALSE, _visit_num |-> 0]
    IN  [reset_visits(built) EXCEPT !.current_visit = None,
                                    !._done_visiting = FALSE,
                                    !._visit_num = 0]

\* Visit lists of at most MaxVisits entries, each asking for at most MaxExposures.
VisitSpecs == UNION {[1..n -> 0..MaxExposures] : n \in 0..MaxVisits}

\* A value of target_config['name'] is a str or an object of another type.
Names == {[type |-> "str", value |-> "M42"], [type |-> "int", value |-> "42"]}

\* Target configurations whose name, position and frame are given or not.
Configs ==
    [name : {Missing} \cup {<<n>> : n \in Names},
     position : {Missing, <<"05h35m17s -05d23m28s">>},
     frame : {Missing, <<"fk5">>},
     visit : {Missing} \cup {<<entries>> : entries \in VisitSpecs}]

\* The configurations of a named target with a position in the default frame.
ValidConfigs ==
    {target_config \in Configs :
        /\ target_config.name = <<[type |-> "str", value |-> "M42"]>>
        /\ Has(target_config, "position")
        /\ ~Has(target_config, "frame")}

\* No Target object: the fields before __init__ ran, and after it raised.
Unconstructed ==
    [target |-> "unconstructed", coord |-> None, visit |-> <<>>, visits |-> 0,
     current_visit |-> None, _done_visiting |-> FALSE, _visit_num |-> 0,
     _reference_image |-> None, _offset_info |-> EmptyOffsetInfo]

\* __init__ raised exc after the collaborator calls it made.
Raised(exc, calls) == [Unconstructed EXCEPT !.target = "failed"] @@ [exc |-> exc, calls |-> calls]

\* __init__, lines 54-73, once the coordinates are there.
Built(target_config, sky_coord, calls) ==
    LET new == NewTarget(target_config)
    IN  [target |-> "created", coord |-> <<sky_coord>>, visit |-> new.visit,
         visits |-> new.visits, current_visit |-> new.current_visit,
         _done_visiting |-> new._done_visiting, _visit_num |-> new._visit_num,
         _reference_image |-> None, _offset_info |-> EmptyOffsetInfo,
         exc |-> NoException, calls |-> calls]

\* SkyCoord.from_name(name) resolves the name of an object over the network, or
\* raises; it raises for a name that is no str.
FromNameOutcomes(name) ==
    IF name # None /\ name[1].type = "str" THEN {"ok", "raise"} ELSE {"raise"}

\* SkyCoord(position, frame=...) parses the position or raises ValueError.
SkyCoordOutcomes == {"ok", "ValueError"}

\* Mutant of Fallback: the failure of the resolver is raised to the caller.
Fallback_Raises(target_config, sky_coord, looked_up) ==
    Raised("NameResolveError", <<looked_up>>)

\* __init__, lines 50-52: the except branch, entered after from_name raised
\* (looked_up is that call); the coordinates come from target_config['position']
\* under target_config['frame'], 'icrs' when there is no such entry.
Fallback(target_config, sky_coord, looked_up) ==
    IF ~Has(target_config, "position")
    THEN Raised("KeyError", <<looked_up>>)
    ELSE IF sky_coord # "ok"
    THEN Raised(sky_coord, <<looked_up, <<"SkyCoord", sky_coord>>>>)
    ELSE Built(target_config,
               [source |-> "position", value |-> target_config.position[1],
                frame |-> Get(target_config, "frame", "icrs")],
               <<looked_up, <<"SkyCoord", sky_coord>>>>)

\* __init__, lines 38-40: what the three assert statements assert, in order.
Asserted(target_config) ==
    /\ Has(target_config, "name")
    /\ Has(target_config, "position")
    /\ target_config.name[1].type = "str"

\* __init__, lines 38-73.  The assert statements of lines 38-40 run when
\* __debug__ is true, which it is unless the interpreter was started with -O.
\* from_name and sky_coord are what the two SkyCoord constructors do when called.
__init__(target_config, __debug__, from_name, sky_coord) ==
    IF __debug__ /\ ~Asserted(target_config) THEN Raised("AssertionError", <<>>)
    ELSE LET name == target_config.name
             looked_up == <<"SkyCoord.from_name", from_name>>
         IN  IF from_name = "ok"
             THEN Built(target_config,
                        [source |-> "name", value |-> name[1].value, frame |-> "icrs"],
                        <<looked_up>>)
             ELSE Fallback(target_config, sky_coord, looked_up)

\* The state after __init__ ran on target_config.
Constructed(target_config, done) ==
    /\ target = done.target
    /\ coord = done.coord
    /\ visit = done.visit
    /\ visits = done.visits
    /\ current_visit = done.current_visit
    /\ _done_visiting = done._done_visiting
    /\ _visit_num = done._visit_num
    /\ _reference_image = done._reference_image
    /\ _offset_info = done._offset_info
    /\ last_call = Call("__init__", <<target_config>>, None, done.exc, done.calls)
    /\ returned = <<>>
    /\ driven = TRUE

\* The state a construction from target_config leaves when the name resolves.
Created(target_config) ==
    Constructed(target_config, __init__(target_config, TRUE, "ok", "-"))

Init == \E target_config \in ValidConfigs : Created(target_config)

\* What the collaborators of __init__ can do on target_config, "-" for a
\* collaborator that is not reached.
ConstructionOutcomes(target_config, __debug__) ==
    IF __debug__ /\ ~Asserted(target_config)
    THEN {<<"-", "-">>}
    ELSE UNION {IF from_name = "ok" \/ ~Has(target_config, "position")
                THEN {<<from_name, "-">>}
                ELSE {<<from_name, sky_coord>> : sky_coord \in SkyCoordOutcomes} :
                from_name \in FromNameOutcomes(target_config.name)}

\* Target(target_config), lines 27-73.
Construct(target_config, __debug__, from_name, sky_coord) ==
    /\ target = "unconstructed"
    /\ LET done == __init__(target_config, __debug__, from_name, sky_coord)
       IN  /\ target' = done.target
           /\ coord' = done.coord
           /\ visit' = done.visit
           /\ visits' = done.visits
           /\ current_visit' = done.current_visit
           /\ _done_visiting' = done._done_visiting
           /\ _visit_num' = done._visit_num
           /\ _reference_image' = done._reference_image
           /\ _offset_info' = done._offset_info
           /\ last_call' = Call("__init__", <<target_config>>, None, done.exc, done.calls)
    /\ returned' = <<>>
    /\ driven' = TRUE

\* ---------------------------------------------------------------- get_visit
\* get_visit, lines 125-137, with next(self.visits) resuming get_visit_iter.
GetVisit ==
    /\ target = "created"
    /\ IF ~NeedsNextVisit(Self)
       THEN /\ last_call' = Call("get_visit", None, current_visit, NoException, <<>>)
            /\ returned' = <<>>
            /\ driven' = FALSE
            /\ UNCHANGED <<visits, current_visit, _done_visiting, _visit_num>>
       ELSE IF visits < Len(visit)
       THEN LET yielded == YieldVisit(Self, visits)
            IN  /\ _visit_num' = yielded._visit_num
                /\ current_visit' = yielded.current_visit
                /\ _done_visiting' = yielded._done_visiting
                /\ visits' = visits + 1
                /\ last_call' = Call("get_visit", None, <<visits>>, NoException, <<>>)
                /\ returned' = IF driven THEN Append(returned, visits) ELSE returned
                /\ driven' = driven
       ELSE /\ last_call' = Call("get_visit", None, None, "StopIteration", <<>>)
            /\ UNCHANGED <<visits, current_visit, _done_visiting, _visit_num,
                           returned, driven>>
    /\ UNCHANGED <<target, coord, visit, _reference_image, _offset_info>>

\* Mutant of ResetVisits: the reference image and offset_info are cleared too.
ResetVisits_ClearsTracker ==
    /\ target = "created"
    /\ LET new == reset_visits(Self)
       IN  /\ visit' = new.visit
           /\ visits' = new.visits
           /\ current_visit' = new.current_visit
           /\ _done_visiting' = new._done_visiting
           /\ _visit_num' = new._visit_num
    /\ last_call' = Call("reset_visits", None, None, NoException, <<>>)
    /\ returned' = <<>>
    /\ driven' = TRUE
    /\ _reference_image' = None
    /\ _offset_info' = EmptyOffsetInfo
    /\ UNCHANGED <<target, coord>>

\* reset_visits, lines 139-150.
ResetVisits ==
    /\ target = "created"
    /\ LET new == reset_visits(Self)
       IN  /\ visit' = new.visit
           /\ visits' = new.visits
           /\ current_visit' = new.current_visit
           /\ _done_visiting' = new._done_visiting
           /\ _visit_num' = new._visit_num
    /\ last_call' = Call("reset_visits", None, None, NoException, <<>>)
    /\ returned' = <<>>
    /\ driven' = TRUE
    /\ UNCHANGED <<target, coord, _reference_image, _offset_info>>

\* The camera/visit collaborator executes the next exposure of visit number v.
ExecuteExposure(v) ==
    /\ target = "created"
    /\ ~complete(visit[v + 1])
    /\ visit' = [visit EXCEPT ![v + 1].executed = @ + 1]
    /\ last_call' = CollaboratorStep("execute_exposure", <<v>>)
    /\ UNCHANGED <<target, coord, visits, current_visit, _done_visiting, _visit_num,
                   _reference_image, _offset_info, returned, driven>>

\* The camera/visit collaborator inserts an image record into the first exposure
\* of the first visit, the exposure reference_image reads: any record first, then
\* FillerImage; records are appended and never removed.  The image records of
\* every other exposure reach the Target only as get_image_offset's argument and
\* are drawn there.
AppendImage(image) ==
    /\ target = "created"
    /\ Len(visit) > 0
    /\ Len(visit[1].exposures) > 0
    /\ Len(visit[1].exposures[1]) < MaxImages
    /\ Len(visit[1].exposures[1]) > 0 => image = FillerImage
    /\ visit' = [visit EXCEPT ![1].exposures[1] = Append(@, image)]
    /\ last_call' = CollaboratorStep("insert_image", <<image>>)
    /\ UNCHANGED <<target, coord, visits, current_visit, _done_visiting, _visit_num,
                   _reference_image, _offset_info, returned, driven>>

\* ------------------------------------------------- the reference frame tracker
\* Mutant of reference_image: every access reads the most recent image again.
reference_image_RereadsLatest(cached, visit_list) ==
    IF Len(visit_list) = 0 THEN cached
    ELSE IF Len(visit_list[1].exposures) = 0 THEN cached
    ELSE IF Len(visit_list[1].exposures[1]) = 0 THEN cached
    ELSE <<visit_list[1].exposures[1][Len(visit_list[1].exposures[1])]>>

\* Mutant of reference_image: the first image is never read.
reference_image_NeverReads(cached, visit_list) == cached

\* The reference_image property, lines 90-105, as the value it leaves in
\* self._reference_image (which it returns).  Each IndexError of lines 95, 96 and
\* 101 is caught at line 102 and leaves the cache unset.
reference_image(cached, visit_list) ==
    IF cached # None THEN cached
    ELSE IF Len(visit_list) = 0 THEN None
    ELSE IF Len(visit_list[1].exposures) = 0 THEN None
    ELSE IF Len(visit_list[1].exposures[1]) = 0 THEN None
    ELSE <<visit_list[1].exposures[1][1]>>

ReferenceImage ==
    /\ target = "created"
    /\ _reference_image' = reference_image(_reference_image, visit)
    /\ last_call' = Call("reference_image", None, _reference_image', NoException, <<>>)
    /\ UNCHANGED <<target, coord, visit, visits, current_visit, _done_visiting, _visit_num,
                   _offset_info, returned, driven>>

\* get_image_offset, lines 162-163: image.get('fits_file', image.get('img_file', None)).
ImageFile(image) ==
    IF Has(image, "fits_file") THEN image.fits_file
    ELSE IF Has(image, "img_file") THEN image.img_file
    ELSE None

\* images.solve_offset(first, second): what a call may do.  It fails its
\* assertions when a solution is absent ({}); given two stored solutions it
\* succeeds, or fails its assertions (solutions that are not comparable), or fails
\* with an exception of another class (a malformed solution).
SolveOffsetOutcomes(first, second) ==
    IF first = EmptyDict \/ second = EmptyDict
    THEN {"AssertionError"}
    ELSE {"ok", "AssertionError", "ValueError"}

\* What the collaborators of the phase translation may do: images.read_image_data
\* for the reference (t2[1]) and for the candidate (t2[2]) returns data or None;
\* images.measure_offset (t2[3]) returns a translation or raises.  A call that is
\* not reached is "-".
Tier2Outcomes ==
    {<<r1, r2, m>> \in {"data", "None"} \X {"data", "None"} \X {"ok", "ValueError", "-"} :
        (m = "-") <=> ~(r1 = "data" /\ r2 = "data")}

\* get_image_offset, line 181: the exceptions of solve_offset the handler catches.
CaughtAtTier1(exc) == exc = "AssertionError"

\* Mutant of Tier1: the solutions are handed over in the other order.
Tier1_SwapsArguments(first, second) ==
    [method |-> <<"solve_offset">>, first |-> <<second>>, second |-> <<first>>,
     info |-> Missing]

\* get_image_offset, lines 179-180: what images.solve_offset(first, second)
\* returns when it succeeds, which is assigned to self._offset_info.
Tier1(first, second) ==
    [method |-> <<"solve_offset">>, first |-> <<first>>, second |-> <<second>>,
     info |-> Missing]

\* Mutant of Tier2: the hint is the solution of the candidate (the `info` of
\* line 172).
Tier2_HintFromCandidate(offset_info, ref, last_image, t2) ==
    LET read1 == <<"read_image_data", t2[1]>>
        read2 == <<"read_image_data", t2[2]>>
        measure == <<"measure_offset", t2[3]>>
    IN  IF t2[1] = "None" \/ t2[2] = "None"
        THEN [offset_info |-> offset_info, calls |-> <<read1, read2>>]
        ELSE IF t2[3] # "ok"
        THEN [offset_info |-> offset_info, calls |-> <<read1, read2, measure>>]
        ELSE [offset_info |-> [method |-> <<"measure_offset">>,
                               first |-> <<ImageFile(ref)>>,
                               second |-> <<ImageFile(last_image)>>,
                               info |-> <<Get(last_image, "solved", EmptyDict)>>],
              calls |-> <<read1, read2, measure>>]

\* get_image_offset, lines 185-199: the phase translation, as the offset_info the
\* block leaves and the collaborator calls it makes.  Every exception, the
\* PanError of line 193 included, is caught at line 198.
Tier2(offset_info, ref, last_image, t2) ==
    LET info == Get(ref, "solved", EmptyDict)
        ref_img == ImageFile(ref)
        last_img == ImageFile(last_image)
        read1 == <<"read_image_data", t2[1]>>
        read2 == <<"read_image_data", t2[2]>>
        measure == <<"measure_offset", t2[3]>>
    IN  IF t2[1] = "None" \/ t2[2] = "None"
        THEN [offset_info |-> offset_info, calls |-> <<read1, read2>>]
        ELSE IF t2[3] # "ok"
        THEN [offset_info |-> offset_info, calls |-> <<read1, read2, measure>>]
        ELSE [offset_info |-> [method |-> <<"measure_offset">>, first |-> <<ref_img>>,
                               second |-> <<last_img>>, info |-> <<info>>],
              calls |-> <<read1, read2, measure>>]

\* What a get_image_offset call leaves and does: the reference it leaves cached,
\* the offset_info it leaves, the exception it raises to the caller (NoException
\* when it returns, and then it returns the offset_info it leaves) and the
\* collaborator calls it makes.
OffsetResult(ref, info, exc, calls) ==
    [_reference_image |-> ref, _offset_info |-> info, exc |-> exc, calls |-> calls]

\* Mutant of WithoutReference: the candidate is looked up before the reference is
\* tested.
WithoutReference_InspectsCandidate(offset_info, images) ==
    OffsetResult(None, offset_info,
                 IF Len(images) = 0 THEN "IndexError" ELSE NoException, <<>>)

\* get_image_offset, lines 157 and 201-202: there is no reference image.
WithoutReference(offset_info, images) ==
    OffsetResult(None, offset_info, NoException, <<>>)

\* Mutant of LastImage: the first image of the exposure is taken.
LastImage_First(images) == images[1]

\* get_image_offset, line 159: exposure.images[list(exposure.images)[-1]].
LastImage(images) == images[Len(images)]

\* Mutant of SameFile: the file names are not compared.
SameFile_Never(ref_img, last_img) == FALSE

\* get_image_offset, line 166.
SameFile(ref_img, last_img) == ref_img = last_img

\* get_image_offset, lines 152-202, for an exposure whose image records are
\* `images`.  t1 is what solve_offset does when called and t2 what the
\* collaborators of Tier 2 do.
get_image_offset(cached, offset_info, visit_list, images, t1, t2) ==
    LET ref == reference_image(cached, visit_list)
    IN  IF ref = None
        THEN WithoutReference(offset_info, images)
        ELSE IF Len(images) = 0
        THEN OffsetResult(ref, offset_info, "IndexError", <<>>)
        ELSE
        LET last_image == LastImage(images)
            first == Get(ref[1], "solved", EmptyDict)
            second == Get(last_image, "solved", EmptyDict)
        IN  IF SameFile(ImageFile(ref[1]), ImageFile(last_image))
            THEN OffsetResult(ref, offset_info, NoException, <<>>)
            ELSE IF t1 = "ok"
            THEN OffsetResult(ref, Tier1(first, second),
                              NoException, <<<<"solve_offset", t1>>>>)
            ELSE IF CaughtAtTier1(t1)
            THEN LET phase == Tier2(offset_info, ref[1], last_image, t2)
                 IN  OffsetResult(ref, phase.offset_info, NoException,
                                  <<<<"solve_offset", t1>>>> \o phase.calls)
            ELSE OffsetResult(ref, offset_info, t1, <<<<"solve_offset", t1>>>>)

\* The collaborator behaviours <<t1, t2>> a get_image_offset call on `images` can
\* meet, "-" for a collaborator that cannot be reached: solve_offset is given the
\* solved fields of the reference and of the most recent image, and the
\* collaborators of Tier 2 act only after solve_offset failed its assertions.
Unreached == <<"-", "-", "-">>
CollaboratorOutcomes(images) ==
    LET ref == reference_image(_reference_image, visit)
    IN  IF ref = None \/ Len(images) = 0
        THEN {<<"-", Unreached>>}
        ELSE LET t1s == SolveOffsetOutcomes(Get(ref[1], "solved", EmptyDict),
                                            Get(images[Len(images)], "solved", EmptyDict))
             IN  {<<t1, Unreached>> : t1 \in t1s \ {"AssertionError"}}
                 \cup {<<t1, t2>> \in (t1s \cap {"AssertionError"}) \X Tier2Outcomes : TRUE}

GetImageOffset(images, t1, t2) ==
    /\ target = "created"
    /\ LET done == get_image_offset(_reference_image, _offset_info, visit, images, t1, t2)
       IN  /\ _reference_image' = done._reference_image
           /\ _offset_info' = done._offset_info
           /\ last_call' = Call("get_image_offset", <<images>>,
                                IF done.exc = NoException THEN <<done._offset_info>> ELSE None,
                                done.exc, done.calls)
    /\ UNCHANGED <<target, coord, visit, visits, current_visit, _done_visiting, _visit_num,
                   returned, driven>>

\* The visit sequencer and the collaborator that executes exposures.
Next ==
    \/ GetVisit
    \/ ResetVisits
    \/ \E v \in 0..(Len(visit) - 1) : ExecuteExposure(v)

Spec == Init /\ [][Next]_vars

\* The reference frame tracker beside the sequencer.  The tracker reads no
\* exposure progression, so the visits here are those whose progression is
\* settled at construction: a visit has no exposure (it is complete) or one
\* exposure that is not executed.
TrackerConfigs ==
    {target_config \in ValidConfigs :
        \A i \in 1..Len(VisitEntries(target_config)) : VisitEntries(target_config)[i] <= 1}

InitTracker == \E target_config \in TrackerConfigs : Created(target_config)

NextTracker ==
    \/ GetVisit
    \/ ResetVisits
    \/ \E image \in ImageRecords : AppendImage(image)
    \/ ReferenceImage
    \/ \E images \in ImageLists : \E outcome \in CollaboratorOutcomes(images) :
           GetImageOffset(images, outcome[1], outcome[2])

SpecTracker == InitTracker /\ [][NextTracker]_vars

\* ------------------------------------------------- estimate_visit_duration
\* estimate_visit_duration, lines 223-224: the loop over self.visit from
\* position i on, with the duration accumulated so far; estimates[i] is what
\* self.visit[i].estimate_duration() returns.
RECURSIVE DurationLoop(_, _, _, _)
DurationLoop(estimates, overhead, i, duration) ==
    IF i > Len(estimates)
    THEN duration
    ELSE DurationLoop(estimates, overhead, i + 1, duration + (estimates[i] + overhead))

\* Mutant of estimate_visit_duration: the overhead is left out.
estimate_visit_duration_NoOverhead(estimates, overhead) ==
    DurationLoop(estimates, 0, 1, 0)

\* Mutant of estimate_visit_duration: the overhead is added once per call.
estimate_visit_duration_OverheadOnce(estimates, overhead) ==
    DurationLoop(estimates, 0, 1, 0) + overhead

\* estimate_visit_duration, lines 222-226, in seconds.
estimate_visit_duration(estimates, overhead) == DurationLoop(estimates, overhead, 1, 0)

\* What the visits of a Target can report as their duration estimates.
DurationEstimates == [1..Len(visit) -> 0..MaxDuration]

\* estimate_visit_duration, lines 204-226: it asks every visit for its estimate
\* and assigns no field of the Target.
EstimateVisitDuration(estimates, overhead) ==
    /\ target = "created"
    /\ last_call' = Call("estimate_visit_duration", <<overhead>>,
                         <<estimate_visit_duration(estimates, overhead)>>, NoException,
                         [i \in 1..Len(estimates) |-> <<"estimate_duration", estimates[i]>>])
    /\ UNCHANGED <<target, coord, visit, visits, current_visit, _done_visiting, _visit_num,
                   _reference_image, _offset_info, returned, driven>>

\* The duration estimator beside the sequencer, on the Targets of TrackerConfigs.
NextDuration ==
    \/ GetVisit
    \/ ResetVisits
    \/ \E estimates \in DurationEstimates : \E overhead \in 0..MaxOverhead :
           EstimateVisitDuration(estimates, overhead)

SpecDuration == InitTracker /\ [][NextDuration]_vars

\* --------------------------------------------------- every operation
\* What the visits report to an estimate_visit_duration call made beside the
\* tracker: the first visit any estimate, every other visit MaxDuration.
TargetEstimates ==
    {[i \in 1..Len(visit) |-> IF i = 1 THEN d ELSE MaxDuration] : d \in 0..MaxDuration}

\* Every operation of a Target of TrackerConfigs, and the collaborator that
\* inserts images.
NextTarget ==
    \/ GetVisit
    \/ ResetVisits
    \/ \E image \in ImageRecords : AppendImage(image)
    \/ ReferenceImage
    \/ \E images \in ImageLists : \E outcome \in CollaboratorOutcomes(images) :
           GetImageOffset(images, outcome[1], outcome[2])
    \/ \E estimates \in TargetEstimates : \E overhead \in 0..MaxOverhead :
           EstimateVisitDuration(estimates, overhead)

SpecTarget == InitTracker /\ [][NextTarget]_vars

\* ------------------------------------------------------------ construction
\* Before Target(target_config) is evaluated there is no Target and no call.
InitConstruct ==
    /\ target = Unconstructed.target
    /\ coord = Unconstructed.coord
    /\ visit = Unconstructed.visit
    /\ visits = Unconstructed.visits
    /\ current_visit = Unconstructed.current_visit
    /\ _done_visiting = Unconstructed._done_visiting
    /\ _visit_num = Unconstructed._visit_num
    /\ _reference_image = Unconstructed._reference_image
    /\ _offset_info = Unconstructed._offset_info
    /\ last_call = Call("<no call>", None, None, NoException, <<>>)
    /\ returned = <<>>
    /\ driven = TRUE

\* The configurations handed to the constructor: any of Configs whose visits are
\* those of TrackerConfigs.
ConstructConfigs ==
    {target_config \in Configs :
        \A i \in 1..Len(VisitEntries(target_config)) : VisitEntries(target_config)[i] <= 1}

\* One construction, and the sequencer on the Target it created.
NextConstruct ==
    \/ \E target_config \in ConstructConfigs : \E __debug__ \in BOOLEAN :
           \E outcome \in ConstructionOutcomes(target_config, __debug__) :
               Construct(target_config, __debug__, outcome[1], outcome[2])
    \/ GetVisit
    \/ ResetVisits

SpecConstruct == InitConstruct /\ [][NextConstruct]_vars

\* ------------------------------------------------------------------ claims
NumVisits == Len(visit)
CurrentIsComplete == current_visit # None /\ complete(visit[current_visit[1] + 1])
\* The last visit has been handed out and is complete.
Exhausted ==
    /\ NumVisits >= 1
    /\ visits = NumVisits
    /\ current_visit = <<NumVisits - 1>>
    /\ CurrentIsComplete

\* C1: from a fresh or freshly reset Target with N >= 1 visits, get_visit() calls
\* that each find the previously returned visit complete return visit 0, 1, ...,
\* N-1 in order, each once and none skipped (the sequence is exhausted only after
\* all N were returned), and done_visiting is true once the N-th is returned.
C1_VisitsInOrder ==
    (driven /\ NumVisits >= 1) =>
        /\ Len(returned) <= NumVisits
        /\ \A i \in 1..Len(returned) : returned[i] = i - 1
        /\ (Len(returned) = NumVisits => _done_visiting)
        /\ (last_call.exc = "StopIteration" => Len(returned) = NumVisits)

C1_Witness ==
    /\ driven
    /\ returned = <<0, 1>>
    /\ NumVisits = 2
    /\ Len(visit[1].exposures) = 2 /\ complete(visit[1])
    /\ _done_visiting

\* C2: once the last visit has been handed out and is complete, get_visit()
\* raises StopIteration, leaves current_visit, visit_num and done_visiting (and
\* the cursor) as they were, and the Target stays in that condition until
\* reset_visits() is called.
C2_ExhaustedRaises ==
    [][/\ (Exhausted /\ GetVisit) =>
            /\ last_call'.exc = "StopIteration"
            /\ last_call'.ret = None
            /\ UNCHANGED <<current_visit, _visit_num, _done_visiting, visits>>
       /\ (Exhausted /\ ~ResetVisits) => Exhausted']_vars

C2_Witness ==
    /\ last_call.op = "get_visit" /\ last_call.exc = "StopIteration"
    /\ NumVisits = 2
    /\ Len(visit[1].exposures) = 2 /\ Len(visit[2].exposures) = 1
    /\ complete(visit[1]) /\ complete(visit[2])
    /\ current_visit = <<1>> /\ _visit_num = 1 /\ _done_visiting

\* C3: done_visiting is true exactly while the last visit (index N-1) is the
\* current visit, complete or not: it is false after construction and after
\* reset_visits(), it becomes true only in the get_visit() step that yields the
\* last visit, and becomes false again only in reset_visits().  A target_config
\* with no `visit` entry makes exactly one visit, with done_visiting false after
\* construction and true after the first get_visit().
C3_DoneState ==
    /\ _done_visiting <=> (NumVisits >= 1 /\ current_visit = <<NumVisits - 1>>)
    /\ (last_call.op \in {"__init__", "reset_visits"} => ~_done_visiting)
    /\ (last_call.op = "__init__" /\ ~Has(last_call.args[1], "visit")) => NumVisits = 1
    /\ (NumVisits = 1 /\ last_call.op = "get_visit") => _done_visiting

C3_DoneVisiting ==
    /\ C3_DoneState
    /\ [][/\ C3_DoneState'
          /\ (~_done_visiting /\ _done_visiting') =>
                /\ GetVisit
                /\ last_call'.ret = <<NumVisits - 1>>
                /\ visits = NumVisits - 1 /\ visits' = NumVisits
          /\ (_done_visiting /\ ~_done_visiting') => ResetVisits]_vars

C3_Witness ==
    /\ _done_visiting
    /\ NumVisits = 2
    /\ last_call.op = "get_visit" /\ last_call.ret = <<1>>
    /\ ~complete(visit[2])

\* C4: reset_visits(), from any state, resets the exposure progression of every
\* visit and leaves current_visit None, done_visiting false and a fresh cursor;
\* a second reset_visits() would leave the sequencing state exactly as the first
\* did; and the get_visit() that follows a reset returns visit 0.
C4_ResetIdempotent ==
    [][/\ ResetVisits =>
            /\ current_visit' = None
            /\ ~_done_visiting'
            /\ visits' = 0
            /\ \A i \in 1..NumVisits : visit'[i].executed = 0
            /\ reset_visits(Self') = Self'
       /\ (current_visit = None /\ visits = 0 /\ NumVisits >= 1 /\ GetVisit) =>
            /\ last_call'.ret = <<0>>
            /\ current_visit' = <<0>>]_vars

C4_Witness ==
    /\ last_call.op = "reset_visits"
    /\ NumVisits = 2
    /\ current_visit = None /\ ~_done_visiting /\ visits = 0 /\ _visit_num = 1

\* ---------------------------------------------------------- tracker claims
\* The step is a get_image_offset call; its argument.
GetImageOffsetStep == last_call' # last_call /\ last_call'.op = "get_image_offset"
Argument == last_call'.args[1]

\* The first visit has a first exposure with an image, or a reference is cached.
ReferenceAvailable ==
    \/ _reference_image # None
    \/ /\ Len(visit) > 0
       /\ Len(visit[1].exposures) > 0
       /\ Len(visit[1].exposures[1]) > 0
\* The reference a get_image_offset call made now would use.
ReferenceNow ==
    IF _reference_image # None THEN _reference_image[1] ELSE visit[1].exposures[1][1]

\* Some collaborator of the last call did `what`.
Did(collaborator, what) ==
    \E i \in 1..Len(last_call.calls) : last_call.calls[i] = <<collaborator, what>>

\* C5: get_image_offset(exposure), given an exposure with a most recent image,
\* never raises to the caller, and when neither solve_offset (Tier 1) nor
\* measure_offset (Tier 2) succeeded, whatever failed, it returns the offset_info
\* it found.
C5_NeverRaises ==
    [][(GetImageOffsetStep /\ Len(Argument) > 0) =>
          /\ last_call'.exc = NoException
          /\ (~Did("solve_offset", "ok")' /\ ~Did("measure_offset", "ok")') =>
                /\ last_call'.ret = <<_offset_info>>
                /\ _offset_info' = _offset_info]_vars

\* C6: when the most recently inserted image of the exposure resolves to the
\* file of the reference image, get_image_offset makes no collaborator call
\* (neither tier), leaves offset_info alone and returns it.
C6_SameFileNoOp ==
    [][(/\ GetImageOffsetStep
        /\ Len(Argument) > 0
        /\ ReferenceAvailable
        /\ ImageFile(ReferenceNow) = ImageFile(Argument[Len(Argument)])) =>
            /\ last_call'.exc = NoException
            /\ last_call'.calls = <<>>
            /\ last_call'.ret = <<_offset_info>>
            /\ _offset_info' = _offset_info]_vars

\* A same-file call on an exposure of two images whose first is another file and
\* whose last is not the reference record itself, made while a computed offset
\* is held.
C6_Witness ==
    /\ last_call.op = "get_image_offset" /\ last_call.calls = <<>>
    /\ last_call.exc = NoException
    /\ Len(last_call.args[1]) = 2
    /\ _reference_image # None
    /\ ImageFile(last_call.args[1][1]) # ImageFile(_reference_image[1])
    /\ ImageFile(last_call.args[1][2]) = ImageFile(_reference_image[1])
    /\ last_call.args[1][2] # _reference_image[1]
    /\ _offset_info # EmptyOffsetInfo
    /\ last_call.ret = <<_offset_info>>

\* C7: when no reference image is available (no first visit, no first exposure,
\* or no image in it), get_image_offset returns the offset_info it found, leaves
\* it alone, makes no collaborator call and does not look at the exposure (an
\* exposure with no image does not make it raise).
C7_NoReferenceNoOp ==
    [][(GetImageOffsetStep /\ ~ReferenceAvailable) =>
            /\ last_call'.exc = NoException
            /\ last_call'.calls = <<>>
            /\ last_call'.ret = <<_offset_info>>
            /\ _offset_info' = _offset_info
            /\ _reference_image' = None]_vars

C7_Witness ==
    /\ last_call.op = "get_image_offset" /\ last_call.exc = NoException
    /\ last_call.args = <<<<>>>>
    /\ ~ReferenceAvailable
    /\ Len(visit) > 0 /\ Len(visit[1].exposures) > 0

\* C8: once self._reference_image is set it never changes, whatever is called
\* (reference_image, get_image_offset, get_visit, reset_visits) and whatever
\* images are inserted later.
C8_ReferenceWriteOnce ==
    [][_reference_image # None => _reference_image' = _reference_image]_vars

C8_Witness ==
    /\ _reference_image # None
    /\ Len(visit[1].exposures[1]) = 2
    /\ visit[1].exposures[1][2] # _reference_image[1]
    /\ last_call.op = "reset_visits"
    /\ _offset_info # EmptyOffsetInfo

\* The state follows a call of estimate_visit_duration on a Target of two visits;
\* the estimates its visits reported and the overhead it was given.
DurationOfTwo == last_call.op = "estimate_visit_duration" /\ Len(last_call.calls) = 2
EstimateOf(i) == last_call.calls[i][2]
Overhead == last_call.args[1]

\* C9: for a visit list [A, B], non-negative integer estimates and any overhead,
\* estimate_visit_duration returns the duration for [A] plus the duration for [B].
C9_Additive ==
    DurationOfTwo =>
        last_call.ret[1] = estimate_visit_duration(<<EstimateOf(1)>>, Overhead)
                           + estimate_visit_duration(<<EstimateOf(2)>>, Overhead)

\* C9 as stated: the duration for [A, B] is the duration for [A] plus the
\* duration for [B] plus one overhead unit.
C9_AdditivePlusOverhead ==
    DurationOfTwo =>
        last_call.ret[1] = estimate_visit_duration(<<EstimateOf(1)>>, Overhead)
                           + estimate_visit_duration(<<EstimateOf(2)>>, Overhead)
                           + Overhead

C9_Witness ==
    /\ DurationOfTwo
    /\ Overhead > 0
    /\ EstimateOf(1) > 0
    /\ EstimateOf(2) > EstimateOf(1)
    /\ last_call.ret[1] = EstimateOf(1) + EstimateOf(2) + 2 * Overhead

\* The state follows the construction of a Target from a configuration that
\* lacks name, lacks position, or has a name that is no str.
Invalid(target_config) ==
    \/ ~Has(target_config, "name")
    \/ ~Has(target_config, "position")
    \/ target_config.name[1].type # "str"
InvalidConstruction == last_call.op = "__init__" /\ Invalid(last_call.args[1])

\* C10: construction from a configuration that lacks name, lacks position or has
\* a name that is no str fails with a ConfigurationError before any coordinate
\* resolution or visit construction, and no Target is created.
C10_FailsWithConfigurationError ==
    InvalidConstruction =>
        /\ last_call.exc = "ConfigurationError"
        /\ last_call.calls = <<>>
        /\ target = "failed"
        /\ visit = <<>>

\* The state follows the construction of a Target from a configuration with a
\* str name and a position; what the constructor was given and whom it called.
ValidConstruction == last_call.op = "__init__" /\ Asserted(last_call.args[1])
Config == last_call.args[1]
Resolver == last_call.calls[1]
ParserConsulted == Len(last_call.calls) = 2 /\ last_call.calls[2][1] = "SkyCoord"

\* C11: the constructor asks the name resolver first.  When the resolver returns,
\* its result is the coordinate and the position parser is not consulted; when
\* it raises, the position is parsed under the given frame (icrs by default) and,
\* the position being parseable, the Target is created with that coordinate and
\* nothing is raised.
C11_ResolverThenPosition ==
    ValidConstruction =>
        /\ Len(last_call.calls) >= 1 /\ Resolver[1] = "SkyCoord.from_name"
        /\ ParserConsulted <=> Resolver[2] # "ok"
        /\ Resolver[2] = "ok" =>
              /\ Len(last_call.calls) = 1
              /\ target = "created" /\ last_call.exc = NoException
              /\ coord = <<[source |-> "name", value |-> Config.name[1].value,
                            frame |-> "icrs"]>>
        /\ (ParserConsulted /\ last_call.calls[2][2] = "ok") =>
              /\ target = "created" /\ last_call.exc = NoException
              /\ coord = <<[source |-> "position", value |-> Config.position[1],
                            frame |-> IF Has(Config, "frame") THEN Config.frame[1]
                                                               ELSE "icrs"]>>

C11_Witness ==
    /\ ValidConstruction
    /\ Resolver = <<"SkyCoord.from_name", "raise">>
    /\ ParserConsulted /\ last_call.calls[2][2] = "ok"
    /\ Config.frame = <<"fk5">>
    /\ target = "created"
    /\ coord[1].source = "position" /\ coord[1].frame = "fk5"
    /\ Len(visit) = 2

\* ------------------------------------------------------ sequencer claims
\* C12: while current_visit is set and not complete, get_visit() returns it and
\* leaves the cursor, current_visit, visit_num and done_visiting as they were,
\* however often it is called; it takes the next visit from the cursor only when
\* current_visit is None or complete.
C12_ReturnsIncompleteCurrent ==
    [][GetVisit =>
          /\ (current_visit # None /\ ~CurrentIsComplete) =>
                /\ last_call'.ret = current_visit
                /\ last_call'.exc = NoException
                /\ UNCHANGED <<visits, current_visit, _visit_num, _done_visiting, visit>>
          /\ visits' # visits =>
                /\ current_visit = None \/ CurrentIsComplete
                /\ visits' = visits + 1
                /\ last_call'.ret = <<visits>>
          /\ ((current_visit = None \/ CurrentIsComplete) /\ visits < NumVisits) =>
                visits' = visits + 1]_vars

C12_Witness ==
    /\ last_call.op = "get_visit" /\ last_call.ret = <<0>>
    /\ ~driven
    /\ NumVisits = 2
    /\ current_visit = <<0>> /\ visits = 1 /\ _visit_num = 0 /\ ~_done_visiting
    /\ Len(visit[1].exposures) = 2 /\ visit[1].executed = 1

\* C13: on a Target of N >= 1 visits, after construction and after any get_visit,
\* failed get_visit and reset_visits, 0 <= visit_num < N and current_visit is
\* None or the visit at index visit_num.
C13_VisitNumInRange ==
    NumVisits >= 1 =>
        /\ 0 <= _visit_num /\ _visit_num < NumVisits
        /\ current_visit = None \/ current_visit = <<_visit_num>>
        /\ 0 <= visits /\ visits <= NumVisits

C13_Witness ==
    /\ last_call.op = "get_visit" /\ last_call.exc = "StopIteration"
    /\ NumVisits = 1
    /\ current_visit = <<0>> /\ _visit_num = 0
    /\ Len(visit[1].exposures) = 2 /\ complete(visit[1])

\* C14: reset_visits() leaves the sequencing state of a freshly constructed
\* Target: current_visit None, done_visiting false, visit_num 0 and visit 0 the
\* next visit to be returned, for every N >= 1.
C14_ResetIsFresh ==
    (last_call.op = "reset_visits" /\ NumVisits >= 1) =>
        /\ current_visit = None
        /\ ~_done_visiting
        /\ _visit_num = 0
        /\ visits = 0

\* A get_visit() step moves the cursor by at most one position: it returns the
\* current visit or the visit right after it (visit 0 when none is current),
\* whether or not that visit is already complete.
OneVisitForward ==
    GetVisit =>
        /\ visits' \in {visits, visits + 1}
        /\ last_call'.exc = NoException =>
              \/ last_call'.ret = current_visit /\ current_visit # None
              \/ /\ last_call'.ret = IF current_visit = None THEN <<0>>
                                     ELSE <<current_visit[1] + 1>>
                 /\ visits' = visits + 1

\* C20: a get_visit() call moves the cursor forward by at most one position and
\* skips no visit, complete or not, and visit_num never decreases in a step that
\* is not a reset_visits() call.
C20_ForwardOnly ==
    [][/\ OneVisitForward
       /\ ~ResetVisits => _visit_num' >= _visit_num]_vars

\* -------------------------------------------------- more tracker claims
\* The first visit has a first exposure with a first image.
FirstImageExists ==
    /\ Len(visit) > 0
    /\ Len(visit[1].exposures) > 0
    /\ Len(visit[1].exposures[1]) > 0

\* C15: an access to reference_image raises nothing and returns the cache; as
\* long as the first visit, its first exposure or that exposure's first image is
\* absent the access returns None and leaves the cache unset, and once the image
\* exists, however many accesses returned None before, the access returns
\* exactly that image and has cached it.
C15_RetriedUntilPopulated ==
    /\ last_call.op = "reference_image" =>
          /\ last_call.exc = NoException
          /\ last_call.ret = _reference_image
          /\ last_call.calls = <<>>
          /\ IF FirstImageExists
             THEN _reference_image = <<visit[1].exposures[1][1]>>
             ELSE _reference_image = None
    /\ _reference_image # None =>
          FirstImageExists /\ _reference_image = <<visit[1].exposures[1][1]>>

C15_Witness ==
    /\ last_call.op = "reference_image"
    /\ FirstImageExists
    /\ last_call.ret = <<visit[1].exposures[1][1]>>
    /\ Len(visit[1].exposures[1]) = 2
    /\ visit[1].exposures[1][1] # visit[1].exposures[1][2]
    /\ _offset_info = EmptyOffsetInfo

\* The state follows a get_image_offset call made with a reference image and an
\* exposure whose most recent image is another file; the two images.
ComparingCall ==
    /\ last_call.op = "get_image_offset"
    /\ _reference_image # None
    /\ Len(last_call.args[1]) > 0
    /\ ImageFile(_reference_image[1])
         # ImageFile(last_call.args[1][Len(last_call.args[1])])
Reference == _reference_image[1]
Candidate == last_call.args[1][Len(last_call.args[1])]

\* C16: a get_image_offset call that compares a candidate with another reference
\* calls solve_offset first; when solve_offset succeeds offset_info is its
\* result for the two stored solutions, in the order reference, candidate, and
\* neither read_image_data nor measure_offset is called; they are called only
\* after solve_offset failed.
C16_Tier1First ==
    ComparingCall =>
        /\ Len(last_call.calls) >= 1
        /\ last_call.calls[1][1] = "solve_offset"
        /\ \A i \in 2..Len(last_call.calls) : last_call.calls[i][1] # "solve_offset"
        /\ last_call.calls[1][2] = "ok" =>
              /\ Len(last_call.calls) = 1
              /\ last_call.exc = NoException
              /\ last_call.ret = <<_offset_info>>
              /\ _offset_info = [method |-> <<"solve_offset">>,
                                 first |-> <<Get(Reference, "solved", EmptyDict)>>,
                                 second |-> <<Get(Candidate, "solved", EmptyDict)>>,
                                 info |-> Missing]
        /\ Len(last_call.calls) > 1 => last_call.calls[1][2] # "ok"

C16_Witness ==
    /\ ComparingCall
    /\ last_call.calls = <<<<"solve_offset", "ok">>>>
    /\ _offset_info.method = <<"solve_offset">>
    /\ Len(last_call.args[1]) = 2
    /\ Reference # Candidate
    /\ Reference.fits_file = <<"a.fits">> /\ Candidate.fits_file = <<"b.fits">>

\* The step is a get_image_offset call that went on to Tier 2: solve_offset
\* failed its assertions.
Tier2Step == GetImageOffsetStep /\ Did("solve_offset", "AssertionError")'
Reads == SubSeq(last_call'.calls, 2, 3)

\* C17: Tier 2 asks read_image_data for the reference and for the candidate.
\* When a read returns no data measure_offset is not called and offset_info
\* stays as it was; when both return data and measure_offset succeeds,
\* offset_info becomes its result for the two files with the solution of the
\* reference image, {} when it has none, as the hint.
C17_Tier2 ==
    [][Tier2Step =>
          /\ Len(last_call'.calls) >= 3
          /\ Reads[1][1] = "read_image_data" /\ Reads[2][1] = "read_image_data"
          /\ last_call'.exc = NoException
          /\ last_call'.ret = <<_offset_info'>>
          /\ (Reads[1][2] = "None" \/ Reads[2][2] = "None") =>
                /\ Len(last_call'.calls) = 3
                /\ _offset_info' = _offset_info
          /\ (Reads[1][2] = "data" /\ Reads[2][2] = "data") =>
                /\ Len(last_call'.calls) = 4
                /\ last_call'.calls[4][1] = "measure_offset"
                /\ IF last_call'.calls[4][2] = "ok"
                   THEN _offset_info' =
                            [method |-> <<"measure_offset">>,
                             first |-> <<ImageFile(ReferenceNow)>>,
                             second |-> <<ImageFile(Argument[Len(Argument)])>>,
                             info |-> <<Get(ReferenceNow, "solved", EmptyDict)>>]
                   ELSE _offset_info' = _offset_info]_vars

C17_Witness ==
    /\ last_call.op = "get_image_offset"
    /\ last_call.calls = <<<<"solve_offset", "AssertionError">>,
                           <<"read_image_data", "data">>, <<"read_image_data", "data">>,
                           <<"measure_offset", "ok">>>>
    /\ _offset_info.method = <<"measure_offset">>
    /\ _offset_info.info = <<EmptyDict>>
    /\ Has(last_call.args[1][Len(last_call.args[1])], "solved")

\* ------------------------------------------------------- frame claims
\* The step is an estimate_visit_duration call; the estimates the visits
\* reported to it, summed from the last one back.
EstimateStep == last_call' # last_call /\ last_call'.op = "estimate_visit_duration"
RECURSIVE SumOfEstimates(_, _)
SumOfEstimates(calls, n) ==
    IF n = 0 THEN 0 ELSE SumOfEstimates(calls, n - 1) + calls[n][2]

\* C18: estimate_visit_duration(overhead) asks every visit for its estimate and
\* returns the sum of the estimates plus one overhead per visit, which is zero
\* for an empty visit list; it raises nothing and leaves every field of the
\* Target as it was.
C18_SumAndNoMutation ==
    [][EstimateStep =>
          /\ Len(last_call'.calls) = NumVisits
          /\ last_call'.ret = <<SumOfEstimates(last_call'.calls, NumVisits)
                                + NumVisits * last_call'.args[1]>>
          /\ NumVisits = 0 => last_call'.ret = <<0>>
          /\ last_call'.exc = NoException
          /\ UNCHANGED <<target, coord, visit, visits, current_visit, _visit_num,
                         _done_visiting, _reference_image, _offset_info>>]_vars

C18_Witness ==
    /\ last_call.op = "estimate_visit_duration"
    /\ NumVisits = 2
    /\ last_call.args = <<1>>
    /\ last_call.calls = <<<<"estimate_duration", 1>>, <<"estimate_duration", MaxDuration>>>>
    /\ last_call.ret = <<MaxDuration + 3>>
    /\ current_visit = <<0>> /\ visits = 1
    /\ _reference_image # None
    /\ _offset_info.method = <<"solve_offset">>

\* C19: offset_info changes only in a get_image_offset call whose solve_offset
\* or measure_offset succeeded; get_visit, reset_visits, reference_image and
\* estimate_visit_duration leave it alone; reset_visits clears neither the cached
\* reference image nor offset_info; and get_image_offset changes none of
\* current_visit, visit_num, done_visiting and the cursor.
C19_OffsetInfoFrame ==
    [][/\ _offset_info' # _offset_info =>
             /\ last_call'.op = "get_image_offset"
             /\ last_call'.exc = NoException
             /\ Did("solve_offset", "ok")' \/ Did("measure_offset", "ok")'
       /\ last_call'.op \in {"get_visit", "reset_visits", "reference_image",
                             "estimate_visit_duration"} =>
             _offset_info' = _offset_info
       /\ ResetVisits => UNCHANGED <<_reference_image, _offset_info>>
       /\ GetImageOffsetStep =>
             UNCHANGED <<current_visit, _visit_num, _done_visiting, visits, visit>>]_vars

C19_Witness ==
    /\ last_call.op = "reset_visits"
    /\ NumVisits = 2 /\ _visit_num = 1 /\ current_visit = None
    /\ _reference_image # None
    /\ _offset_info.method = <<"measure_offset">>

====
